---- MODULE Spec2Model ----
(***************************************************************************)
(* L1-wavelet compressed-sensing reconstruction (ISTA) of                  *)
(* 02_fourier_compressed_sensing.ipynb and its hand-written companion      *)
(* notebook: the Linop/Compose operator algebra, the centred orthonormal   *)
(* FFT operator F, the sampling operator S, the inverse-wavelet operator   *)
(* W, soft_thresh and the fixed-count gradient/threshold loop.             *)
(*                                                                         *)
(* Numbers are exact: an array element is a Gaussian rational              *)
(* (re + i*im)/den in lowest terms, or the one value NonFinite that stands *)
(* for every IEEE value that is not finite (NaN, +inf, -inf).  Every       *)
(* operation the notebooks use maps a non-finite operand to a non-finite   *)
(* result (0*inf = NaN, inf-inf = NaN, NaN op x = NaN), so the class is    *)
(* closed.  Arrays are Side x Side, stored row-major as sequences.         *)
(***************************************************************************)
EXTENDS Integers, Sequences, FiniteSets, TLC

\* ------------------------------------------------------------- bounds
MaxIter == 2      \* max_iter ranges over -1..MaxIter
MaxLam == 2       \* lamda ranges over -1..MaxLam in quarters

\* ------------------------------------------------------ exact numbers
AbsInt(n) == IF n < 0 THEN -n ELSE n

RECURSIVE GCD(_, _)
GCD(a, b) == IF b = 0 THEN a ELSE GCD(b, a % b)

\* (re + i*im)/den, den > 0, in lowest terms
Cx(re, im, den) ==
    LET g == GCD(GCD(AbsInt(re), AbsInt(im)), den)
    IN  [re |-> re \div g, im |-> im \div g, den |-> den \div g]

\* NaN, +inf or -inf
NonFinite == [re |-> 0, im |-> 0, den |-> 0]

IsFinite(z) == z.den # 0

Zero == Cx(0, 0, 1)
One == Cx(1, 0, 1)
Real(n, d) == Cx(n, 0, d)

Add(a, b) ==
    IF IsFinite(a) /\ IsFinite(b)
    THEN Cx(a.re * b.den + b.re * a.den, a.im * b.den + b.im * a.den, a.den * b.den)
    ELSE NonFinite

Neg(a) == IF IsFinite(a) THEN [re |-> -a.re, im |-> -a.im, den |-> a.den] ELSE NonFinite

Sub(a, b) == Add(a, Neg(b))

\* IEEE: 0 * inf = NaN, so a non-finite factor never yields a finite product
Mul(a, b) ==
    IF IsFinite(a) /\ IsFinite(b)
    THEN Cx(a.re * b.re - a.im * b.im, a.re * b.im + a.im * b.re, a.den * b.den)
    ELSE NonFinite

\* the integer square root of a perfect square (the model keeps magnitudes rational)
ISqrt(n) == CHOOSE r \in 0..n : r * r = n

\* np.abs of one element
AbsC(z) == IF IsFinite(z) THEN Cx(ISqrt(z.re * z.re + z.im * z.im), 0, z.den) ELSE NonFinite

\* y / a for a real a # 0 (the quotient np.divide computes where the condition holds)
DivReal(y, a) ==
    IF IsFinite(y) /\ IsFinite(a)
    THEN IF a.re > 0 THEN Cx(y.re * a.den, y.im * a.den, y.den * a.re)
                     ELSE Cx(-(y.re * a.den), -(y.im * a.den), y.den * (-a.re))
    ELSE NonFinite

\* a python bool used as a 0/1 multiplier
BoolNum(b) == IF b THEN One ELSE Zero

\* x > 0 for a real x; NaN > 0 is False and inf > 0 is True, and either way the
\* product with the non-finite x stays non-finite
GtZero(x) == IsFinite(x) /\ x.re > 0

\* ------------------------------------------------------------- arrays
\* the side length of img, ksp and the packed coefficient array
Side == 4

NPos == Side * Side
Pos == 1..NPos

\* row-major position of element [i, j] of an n x n array, and back
Idx(i, j, n) == i * n + j + 1
RowOf(p, n) == (p - 1) \div n
ColOf(p, n) == (p - 1) % n

\* a sequence <<f(1), ..., f(n)>>, built element by element
MkArr(f(_), n) == <<>> \o [p \in 1..n |-> f(p)]

\* y, once the array x it is computed from is evaluated (evaluation order only)
After(x, y) == IF Len(x) >= 0 THEN y ELSE <<>>

RECURSIVE SumFrom(_, _)
SumFrom(s, k) == IF k > Len(s) THEN Zero ELSE Add(s[k], SumFrom(s, k + 1))

SumSeq(s) == SumFrom(s, 1)

\* np.zeros_like
ZerosLike(x) == LET z(p) == Zero IN After(x, MkArr(z, Len(x)))

\* elementwise x - y, k * x
ArrSub(x, y) == LET e(p) == Sub(x[p], y[p]) IN After(x, After(y, MkArr(e, Len(x))))
ArrScale(k, x) == LET e(p) == Mul(k, x[p]) IN After(x, MkArr(e, Len(x)))

\* -------------------------------------------------------------- FFTLinop
\* np.fft.fftshift / ifftshift along one axis of length n: where index k comes from
FftShiftSrc(k, n) == (k - (n \div 2) + n) % n
IfftShiftSrc(k, n) == (k + (n \div 2)) % n

fftshift(x) ==
    LET e(p) == x[Idx(FftShiftSrc(RowOf(p, Side), Side), FftShiftSrc(ColOf(p, Side), Side), Side)]
    IN  After(x, MkArr(e, NPos))

ifftshift(x) ==
    LET e(p) == x[Idx(IfftShiftSrc(RowOf(p, Side), Side), IfftShiftSrc(ColOf(p, Side), Side), Side)]
    IN  After(x, MkArr(e, NPos))

\* z * exp(-2 pi i e / 4): a quarter turn per unit of e (Side divides 4)
MulUnit4(z, e) ==
    LET r == ((e % 4) + 4) % 4
    IN  IF ~IsFinite(z) THEN NonFinite
        ELSE IF r = 0 THEN z
        ELSE IF r = 1 THEN [re |-> z.im, im |-> -z.re, den |-> z.den]
        ELSE IF r = 2 THEN [re |-> -z.re, im |-> -z.im, den |-> z.den]
        ELSE [re |-> -z.im, im |-> z.re, den |-> z.den]

\* the unnormalised transform along one axis (0: rows index, 1: columns index):
\* y[k] = sum_m x[m] exp(-sgn 2 pi i k m / Side)
DftAxis(x, axis, sgn) ==
    LET step == 4 \div Side
        e(p) == LET i == RowOf(p, Side)
                    j == ColOf(p, Side)
                    t(m) == IF axis = 0
                            THEN MulUnit4(x[Idx(m - 1, j, Side)], sgn * step * i * (m - 1))
                            ELSE MulUnit4(x[Idx(i, m - 1, Side)], sgn * step * j * (m - 1))
                IN  SumSeq(MkArr(t, Side))
    IN  After(x, MkArr(e, NPos))

\* np.fft.fftn (sgn = 1) and np.fft.ifftn (sgn = -1) with norm='ortho': the
\* transform over both axes, scaled by 1/sqrt(Side * Side)
Dft(x, sgn) == ArrScale(Real(1, ISqrt(NPos)), DftAxis(DftAxis(x, 1, sgn), 0, sgn))

fftn(x) == Dft(x, 1)
ifftn(x) == Dft(x, -1)

FFT_forward(x) == fftshift(fftn(ifftshift(x)))
FFT_adjoint(x) == fftshift(ifftn(ifftshift(x)))

\* ------------------------------------------------------------ wavelets
\* pywt's transform is a library kernel: it is represented by the orthonormal
\* 2-tap member of the Daubechies family (the 4-tap filter has irrational taps),
\* applied separably with periodic boundaries, to the depth a Side x Side image
\* admits.  A band is keyed <<lev, r, s>>: lev = 1 is the finest level, r and s
\* say whether axis 0 and axis 1 hold details (1) or approximations (0).
Level == 2

\* decomposition sign of sample a (0 or 1) of a pair, for band flag r:
\* approximation (x0 + x1)/sqrt 2, detail (x0 - x1)/sqrt 2
HaarSign(r, a) == IF r = 1 /\ a = 1 THEN -1 ELSE 1

\* one subband of the n x n image x: an (n/2) x (n/2) array
Band(x, n, r, s) ==
    LET h == n \div 2
        e(p) == LET bi == RowOf(p, h)
                    bj == ColOf(p, h)
                    t(q) == LET a == RowOf(q, 2)
                                b == ColOf(q, 2)
                            IN  Mul(Real(HaarSign(r, a) * HaarSign(s, b), 2),
                                    x[Idx(2 * bi + a, 2 * bj + b, n)])
                IN  SumSeq(MkArr(t, 4))
    IN  After(x, MkArr(e, h * h))

DetailKeys(lev) == {<<lev, 0, 1>>, <<lev, 1, 0>>, <<lev, 1, 1>>}

\* pywt.wavedecn(x, ..., mode='periodic', level=Level): the nested coefficients
RECURSIVE WaveDecFrom(_, _, _)
WaveDecFrom(x, n, lev) ==
    LET det == [k \in DetailKeys(lev) |-> Band(x, n, k[2], k[3])]
        a == Band(x, n, 0, 0)
    IN  IF lev = Level THEN det @@ (<<lev, 0, 0>> :> a)
                       ELSE det @@ WaveDecFrom(a, n \div 2, lev + 1)

wavedecn(x) == WaveDecFrom(x, Side, 1)

\* the slices pywt.coeffs_to_array records: where each band lies in the packed array
SlicesOf(coeffs) ==
    [k \in DOMAIN coeffs |->
        LET h == ISqrt(Len(coeffs[k]))
        IN  [r0 |-> k[2] * h, c0 |-> k[3] * h, h |-> h]] @@ <<>>

InSlice(sl, i, j) ==
    /\ sl.r0 <= i /\ i < sl.r0 + sl.h
    /\ sl.c0 <= j /\ j < sl.c0 + sl.h

\* pywt.coeffs_to_array: <<packed array, slices>>
coeffs_to_array(coeffs) ==
    LET sls == SlicesOf(coeffs)
        e(p) == LET i == RowOf(p, Side)
                    j == ColOf(p, Side)
                    k == CHOOSE kk \in DOMAIN sls : InSlice(sls[kk], i, j)
                IN  coeffs[k][Idx(i - sls[k].r0, j - sls[k].c0, sls[k].h)]
    IN  <<MkArr(e, NPos), sls>>

\* pywt.array_to_coeffs(arr, slices)
array_to_coeffs(arr, sls) ==
    [k \in DOMAIN sls |->
        LET e(p) == arr[Idx(sls[k].r0 + RowOf(p, sls[k].h), sls[k].c0 + ColOf(p, sls[k].h), Side)]
        IN  After(arr, MkArr(e, sls[k].h * sls[k].h))] @@ <<>>

\* one reconstruction level: the (2h) x (2h) image of four h x h bands
UnBand(coeffs, lev, a, h) ==
    LET band(r, s) == IF r = 0 /\ s = 0 THEN a ELSE coeffs[<<lev, r, s>>]
        e(p) == LET i == RowOf(p, 2 * h)
                    j == ColOf(p, 2 * h)
                    t(q) == LET r == RowOf(q, 2)
                                s == ColOf(q, 2)
                            IN  Mul(Real(HaarSign(r, i % 2) * HaarSign(s, j % 2), 2),
                                    band(r, s)[Idx(i \div 2, j \div 2, h)])
                IN  SumSeq(MkArr(t, 4))
    IN  After(a, MkArr(e, 4 * h * h))

\* pywt.waverecn(coeffs, ..., mode='periodic')
RECURSIVE WaveRecFrom(_, _, _)
WaveRecFrom(coeffs, lev, a) ==
    IF lev = 0 THEN a
    ELSE WaveRecFrom(coeffs, lev - 1, UnBand(coeffs, lev, a, ISqrt(Len(a))))

waverecn(coeffs) == WaveRecFrom(coeffs, Level, coeffs[<<Level, 0, 0>>])

\* ---------------------------------------------------------------- state
VARIABLES
    img,            \* the ground-truth image (np.load)
    ksp,            \* the k-space measurements (np.load)
    mask,           \* np.abs(ksp) > 0
    coeff,          \* the packed wavelet coefficients of img
    coeff_slices,   \* the packing layout recorded with coeff
    lamda,          \* regularization parameter
    alpha,          \* step size
    max_iter,       \* iteration count
    coeff_hat,      \* the solver's coefficient array
    img_hat,        \* the reconstructed image, <<>> until computed
    it,             \* how many loop bodies the current run has executed
    pc,             \* "iterating" or "done"
    run,            \* 1: the plain loop cell, 2: the tqdm loop cell
    hat_run1,       \* history: coeff_hat of run 1 after 0, 1, ... iterations
    img_hat1,       \* history: img_hat of run 1
    bench           \* an operator applied to an array outside the solver

vars == <<img, ksp, mask, coeff, coeff_slices, lamda, alpha, max_iter,
          coeff_hat, img_hat, it, pc, run, hat_run1, img_hat1, bench>>

config == <<img, ksp, mask, coeff, coeff_slices, lamda, alpha, max_iter>>

\* --------------------------------------------------------------- Linops
Sampling_forward(x) == LET e(p) == Mul(BoolNum(mask[p]), x[p]) IN After(x, MkArr(e, Len(x)))

\* variant: an adjoint that passes its input through unmasked
Sampling_adjoint_Unmasked(x) == After(x, x)

\* _adjoint = _forward
Sampling_adjoint(x) == Sampling_forward(x)

InverseWavelet_forward(x) == waverecn(array_to_coeffs(x, coeff_slices))

\* <<coeff, coeff_slices>> as the two names are bound inside _adjoint: both are
\* locals of the call, and only coeff is returned
InverseWavelet_adjoint_locals(x) == coeffs_to_array(wavedecn(x))

InverseWavelet_adjoint(x) == InverseWavelet_adjoint_locals(x)[1]

F == [kind |-> "FFTLinop"]
S == [kind |-> "SamplingLinop"]
W == [kind |-> "InverseWaveletLinop"]

\* Linop.__mul__
Compose(opA, opB) == [kind |-> "Compose", A |-> opA, B |-> opB]

RECURSIVE Forward(_, _)
RECURSIVE Adjoint(_, _)

Compose_forward(op, x) == Forward(op.A, Forward(op.B, x))

\* variant: the adjoints applied in the order of the forward pass
Compose_adjoint_SameOrder(op, x) == Adjoint(op.A, Adjoint(op.B, x))

Compose_adjoint(op, x) == Adjoint(op.B, Adjoint(op.A, x))

\* Linop.__call__: self._forward(x)
Forward(op, x) ==
    CASE op.kind = "FFTLinop" -> FFT_forward(x)
      [] op.kind = "SamplingLinop" -> Sampling_forward(x)
      [] op.kind = "InverseWaveletLinop" -> InverseWavelet_forward(x)
      [] op.kind = "Compose" -> Compose_forward(op, x)

\* Linop.H: self._adjoint(x)
Adjoint(op, x) ==
    CASE op.kind = "FFTLinop" -> FFT_adjoint(x)
      [] op.kind = "SamplingLinop" -> Sampling_adjoint(x)
      [] op.kind = "InverseWaveletLinop" -> InverseWavelet_adjoint(x)
      [] op.kind = "Compose" -> Compose_adjoint(op, x)

\* variant: the chain listed in the reverse order, W * F * S
A_Reversed == Compose(Compose(W, F), S)

\* A = S * F * W: python's * associates to the left
A == Compose(Compose(S, F), W)

\* ---------------------------------------------------------- soft_thresh
\* uninit is the content of the array np.divide allocates for its result: with
\* where= and no out=, the elements where the condition is False are never
\* written and keep whatever the allocation held.
soft_thresh(y, lam, uninit) ==
    LET e(p) ==
            LET absy == AbsC(y[p])
                mag0 == Sub(absy, lam)
                mag == Mul(mag0, BoolNum(GtZero(mag0)))
                sign == IF absy # Zero THEN DivReal(y[p], absy) ELSE uninit[p]
            IN  Mul(mag, sign)
    IN  After(y, MkArr(e, Len(y)))

\* ------------------------------------------------------------ the solver
gradf(x) == Adjoint(A, ArrSub(Forward(A, x), ksp))

\* the companion notebook: WaveletLinop is the decomposition, its H the
\* reconstruction; FFTLinop and SamplingLinop (H = __call__) compute what F and S do
Wavelet_call(x) == coeffs_to_array(wavedecn(x))[1]

Wavelet_H(x) == waverecn(array_to_coeffs(x, coeff_slices))

\* the companion notebook's gradf: W(F.H(S.H(S(F(W.H(x))) - ksp)))
gradf_handwritten(x) ==
    Wavelet_call(FFT_adjoint(Sampling_forward(
        ArrSub(Sampling_forward(FFT_forward(Wavelet_H(x))), ksp))))

\* the loop body: coeff_hat -= alpha * gradf(coeff_hat), then soft_thresh
GradientStep(x) == ArrSub(x, ArrScale(alpha, gradf(x)))

\* --------------------------------------------------------------- inputs
Delta(p, a) == LET e(q) == IF q = p THEN Real(a, 1) ELSE Zero IN MkArr(e, NPos)
Flat(a) == LET e(q) == Real(a, 1) IN MkArr(e, NPos)

\* the images: empty, uniform, one bright pixel, and one bright pixel with a
\* complex phase (a unit phase with rational parts keeps every magnitude rational)
ImgSet == {Flat(0), Flat(1), Delta(1, 1), ArrScale(Cx(3, 4, 5), Delta(6, 2))}

\* Cartesian undersampling: the set of acquired k-space rows, symmetric about
\* the centre row, which is always acquired
Mirror(i) == (2 * (Side \div 2) - i + Side) % Side
SampSet == {R \in SUBSET (0..(Side - 1)) : (Side \div 2) \in R /\ \A i \in R : Mirror(i) \in R}

\* noise-free measurements of image x on the rows R, zero elsewhere
Acquire(x, R) ==
    LET k == FFT_forward(x)
        e(p) == IF RowOf(p, Side) \in R THEN k[p] ELSE Zero
    IN  MkArr(e, NPos)

LamSet == {Real(k, 4) : k \in (-1)..MaxLam}
AlphaSet == {Real(-1, 1), Real(1, 1)}
IterSet == (-1)..MaxIter

\* contents np.divide's fresh result array may hold where it is not written:
\* the first skipped element holds g (a finite value or a non-finite one), the
\* other skipped elements hold a finite value.  A finite value is written 0:
\* for a threshold >= 0 the product 0 * g is 0 whatever finite g is.
Skipped(y) == {p \in DOMAIN y : AbsC(y[p]) = Zero}

FirstSkipped(y) == {p \in Skipped(y) : \A q \in Skipped(y) : p <= q}

Garbage == {Zero, NonFinite}

UninitSet(y) == {[p \in DOMAIN y |-> IF p \in FirstSkipped(y) THEN g ELSE Zero] : g \in Garbage}

\* -------------------------------------------------------------- actions
\* the set-up cells: load img and ksp, derive mask, record the wavelet layout
SetUp ==
    /\ img \in ImgSet
    /\ \E R \in SampSet : ksp = Acquire(img, R)
    /\ mask = [p \in Pos |-> GtZero(AbsC(ksp[p]))]
    /\ coeff = coeffs_to_array(wavedecn(img))[1]
    /\ coeff_slices = coeffs_to_array(wavedecn(img))[2]

NoBench == [op |-> F, x |-> <<>>, y |-> <<>>, xh |-> <<>>, z |-> <<>>, stage |-> "idle"]

Init ==
    /\ SetUp
    /\ lamda \in LamSet
    /\ alpha \in AlphaSet
    /\ max_iter \in IterSet
    /\ coeff_hat = ZerosLike(coeff)
    /\ img_hat = <<>>
    /\ it = 0
    /\ pc = "iterating"
    /\ run = 1
    /\ hat_run1 = <<ZerosLike(coeff)>>
    /\ img_hat1 = <<>>
    /\ bench = NoBench

\* variant: a loop that runs one pass too many
Iterate_ExtraPass ==
    /\ pc = "iterating"
    /\ it <= max_iter
    /\ LET stepped == GradientStep(coeff_hat)
       IN  \E u \in UninitSet(stepped) :
               /\ coeff_hat' = soft_thresh(stepped, Mul(lamda, alpha), u)
               /\ hat_run1' = IF run = 1 THEN Append(hat_run1, coeff_hat') ELSE hat_run1
    /\ it' = it + 1
    /\ UNCHANGED <<config, img_hat, pc, run, img_hat1, bench>>

\* variant: the residual A(x) - ksp computed in place, into ksp
Iterate_ResidualInPlace ==
    /\ pc = "iterating"
    /\ it < max_iter
    /\ LET stepped == GradientStep(coeff_hat)
       IN  \E u \in UninitSet(stepped) :
               /\ coeff_hat' = soft_thresh(stepped, Mul(lamda, alpha), u)
               /\ hat_run1' = IF run = 1 THEN Append(hat_run1, coeff_hat') ELSE hat_run1
    /\ ksp' = ArrSub(Forward(A, coeff_hat), ksp)
    /\ it' = it + 1
    /\ UNCHANGED <<img, mask, coeff, coeff_slices, lamda, alpha, max_iter,
                   img_hat, pc, run, img_hat1, bench>>

\* one pass of the for-loop body
Iterate ==
    /\ pc = "iterating"
    /\ it < max_iter
    /\ LET stepped == GradientStep(coeff_hat)
       IN  \E u \in UninitSet(stepped) :
               /\ coeff_hat' = soft_thresh(stepped, Mul(lamda, alpha), u)
               /\ hat_run1' = IF run = 1 THEN Append(hat_run1, coeff_hat') ELSE hat_run1
    /\ it' = it + 1
    /\ UNCHANGED <<config, img_hat, pc, run, img_hat1, bench>>

\* range(max_iter) is exhausted: img_hat = W(coeff_hat)
Finish ==
    /\ pc = "iterating"
    /\ ~(it < max_iter)
    /\ img_hat' = Forward(W, coeff_hat)
    /\ img_hat1' = IF run = 1 THEN img_hat' ELSE img_hat1
    /\ pc' = "done"
    /\ UNCHANGED <<config, coeff_hat, it, run, hat_run1, bench>>

\* the second loop cell: coeff_hat = np.zeros_like(coeff) and the same loop
Rerun ==
    /\ pc = "done"
    /\ run = 1
    /\ coeff_hat' = ZerosLike(coeff)
    /\ it' = 0
    /\ run' = 2
    /\ pc' = "iterating"
    /\ UNCHANGED <<config, img_hat, hat_run1, img_hat1, bench>>

Next == Iterate \/ Finish \/ Rerun

Spec == Init /\ [][Next]_vars

\* the control flow of Next: which statement runs next depends on pc, it, run and
\* max_iter alone, and the array arithmetic of a statement always yields a value
ControlStep ==
    \/ pc = "iterating" /\ it < max_iter /\ it' = it + 1 /\ pc' = pc /\ run' = run
    \/ pc = "iterating" /\ ~(it < max_iter) /\ pc' = "done" /\ it' = it /\ run' = run
    \/ pc = "done" /\ run = 1 /\ pc' = "iterating" /\ run' = 2 /\ it' = 0

\* the interpreter keeps executing: a statement that can run does run
FairSpec == Spec /\ WF_<<it, pc, run>>(ControlStep)

\* ------------------------------------------------- operators on their own
\* arrays an operator is applied to: real, complex, sparse and dense, and one
\* holding a NaN (the first element; the others are those of Ramp)
Ramp == LET e(p) == Cx(p, NPos - 2 * p, 1) IN MkArr(e, NPos)

RampNaN == LET e(p) == IF p = 1 THEN NonFinite ELSE Ramp[p] IN MkArr(e, NPos)

XSet == {Flat(1), Delta(1, 1), ArrScale(Cx(3, 4, 5), Delta(6, 2)), Delta(NPos, 3), Ramp, RampNaN}

AtomSet == {F, S, W}
OpSet == AtomSet \cup {Compose(a, b) : a \in AtomSet \cup {Compose(S, F)}, b \in AtomSet \cup {Compose(F, W)}}

InitOps ==
    /\ SetUp
    /\ lamda = Zero
    /\ alpha = One
    /\ max_iter = 0
    /\ coeff_hat = ZerosLike(coeff)
    /\ img_hat = <<>>
    /\ it = 0
    /\ pc = "bench"
    /\ run = 1
    /\ hat_run1 = <<>>
    /\ img_hat1 = <<>>
    /\ \E op \in OpSet, x \in XSet :
           bench = [op |-> op, x |-> x, y |-> <<>>, xh |-> <<>>, z |-> <<>>, stage |-> "ready"]

\* a cell that evaluates op(x), op.H(x) and op.H(op(x))
Apply ==
    /\ bench.stage = "ready"
    /\ bench' = [bench EXCEPT !.y = Forward(bench.op, bench.x),
                              !.xh = Adjoint(bench.op, bench.x),
                              !.z = Adjoint(bench.op, Forward(bench.op, bench.x)),
                              !.stage = "applied"]
    /\ UNCHANGED <<config, coeff_hat, img_hat, it, pc, run, hat_run1, img_hat1>>

NextOps == Apply

SpecOps == InitOps /\ [][NextOps]_vars

\* ------------------------------------------- FFTLinop on arrays of any side
\* A transform of odd length leaves the Gaussian rationals: an element of an
\* n x n array, n in SideSet, is a + b*w with a, b Gaussian rationals and
\* w = exp(2 pi i / 3), w * w = -1 - w.  The input arrays have b = 0.
SideSet == {2, 3, 4}

Ext(z) == [a |-> z, b |-> Zero]

EAdd(u, v) == [a |-> Add(u.a, v.a), b |-> Add(u.b, v.b)]

\* (a + b w) w = -b + (a - b) w
EMulOmega(u) == [a |-> Neg(u.b), b |-> Sub(u.a, u.b)]

\* u * exp(-2 pi i e / n)
Twiddle(u, n, e) ==
    IF n = 3
    THEN LET r == (((-e) % 3) + 3) % 3
         IN  IF r = 0 THEN u
             ELSE IF r = 1 THEN EMulOmega(u)
             ELSE EMulOmega(EMulOmega(u))
    ELSE [a |-> MulUnit4(u.a, e * (4 \div n)), b |-> MulUnit4(u.b, e * (4 \div n))]

RECURSIVE ESumFrom(_, _)
ESumFrom(s, k) == IF k > Len(s) THEN Ext(Zero) ELSE EAdd(s[k], ESumFrom(s, k + 1))

fftshiftN(x, n) ==
    LET e(p) == x[Idx(FftShiftSrc(RowOf(p, n), n), FftShiftSrc(ColOf(p, n), n), n)]
    IN  After(x, MkArr(e, n * n))

ifftshiftN(x, n) ==
    LET e(p) == x[Idx(IfftShiftSrc(RowOf(p, n), n), IfftShiftSrc(ColOf(p, n), n), n)]
    IN  After(x, MkArr(e, n * n))

\* the unnormalised transform along one axis of an n x n array
DftAxisN(x, n, axis, sgn) ==
    LET e(p) == LET i == RowOf(p, n)
                    j == ColOf(p, n)
                    t(m) == IF axis = 0
                            THEN Twiddle(x[Idx(m - 1, j, n)], n, sgn * i * (m - 1))
                            ELSE Twiddle(x[Idx(i, m - 1, n)], n, sgn * j * (m - 1))
                IN  ESumFrom(MkArr(t, n), 1)
    IN  After(x, MkArr(e, n * n))

\* fftn (sgn = 1) / ifftn (sgn = -1) with norm='ortho': scaled by 1/sqrt(n * n)
DftN(x, n, sgn) ==
    LET d == DftAxisN(DftAxisN(x, n, 1, sgn), n, 0, sgn)
        e(p) == [a |-> Mul(Real(1, n), d[p].a), b |-> Mul(Real(1, n), d[p].b)]
    IN  After(d, MkArr(e, n * n))

FFTLinop_forward(x, n) == fftshiftN(DftN(ifftshiftN(x, n), n, 1), n)

\* variant: the centring shifts of the adjoint named the other way round
FFTLinop_adjoint_ShiftsSwapped(x, n) == ifftshiftN(DftN(fftshiftN(x, n), n, -1), n)

FFTLinop_adjoint(x, n) == fftshiftN(DftN(ifftshiftN(x, n), n, -1), n)

\* the arrays F is applied to: one non-zero element (real or complex) at each
\* position, and an array whose elements are all different
DeltaN(n, p, z) == LET e(q) == Ext(IF q = p THEN z ELSE Zero) IN MkArr(e, n * n)

RampN(n) == LET e(p) == Ext(Cx(p, n * n - 2 * p, 1)) IN MkArr(e, n * n)

XSetN(n) == {DeltaN(n, p, z) : p \in 1..(n * n), z \in {One, Cx(3, 4, 5)}} \cup {RampN(n)}

InitFFT ==
    /\ SetUp
    /\ lamda = Zero
    /\ alpha = One
    /\ max_iter = 0
    /\ coeff_hat = ZerosLike(coeff)
    /\ img_hat = <<>>
    /\ it = 0
    /\ pc = "bench"
    /\ run = 1
    /\ hat_run1 = <<>>
    /\ img_hat1 = <<>>
    /\ \E n \in SideSet : \E x \in XSetN(n) :
           bench = [op |-> F, n |-> n, x |-> x, y |-> <<>>, z |-> <<>>, stage |-> "ready"]

\* y = F(x)
ApplyF ==
    /\ bench.stage = "ready"
    /\ bench' = [bench EXCEPT !.y = FFTLinop_forward(bench.x, bench.n), !.stage = "forward"]
    /\ UNCHANGED <<config, coeff_hat, img_hat, it, pc, run, hat_run1, img_hat1>>

\* z = F.H(y)
ApplyFH ==
    /\ bench.stage = "forward"
    /\ bench' = [bench EXCEPT !.z = FFTLinop_adjoint(bench.y, bench.n), !.stage = "back"]
    /\ UNCHANGED <<config, coeff_hat, img_hat, it, pc, run, hat_run1, img_hat1>>

NextFFT == ApplyF \/ ApplyFH

SpecFFT == InitFFT /\ [][NextFFT]_vars

\* ---------------------------------------------------------------- claims
\* every element of x is finite
AllFinite(x) == \A p \in DOMAIN x : IsFinite(x[p])

\* every element of x is zero
IsZeroArray(x) == \A p \in DOMAIN x : x[p] = Zero

\* a <= b for finite reals
Le(a, b) == a.re * b.den <= b.re * a.den

\* C1: for every max_iter >= 0 the loop body runs exactly max_iter times (never
\* more, and not fewer before the image is computed), the run then reaches
\* "done" with img_hat = W(coeff_hat), and with max_iter = 0 the coefficient
\* array is still all zero there; the loop always terminates.
C1_LoopRunsMaxIterTimes ==
    /\ [](max_iter >= 0 =>
            /\ it <= max_iter
            /\ (run = 1 => Len(hat_run1) = it + 1)
            /\ (pc = "done" =>
                    /\ it = max_iter
                    /\ img_hat = Forward(W, coeff_hat)
                    /\ (max_iter = 0 => coeff_hat = ZerosLike(coeff))))
    /\ (max_iter >= 0 => <>(pc = "done" /\ run = 2))

C1_Witness ==
    /\ pc = "done"
    /\ run = 2
    /\ max_iter = MaxIter
    /\ it = MaxIter
    /\ AllFinite(img_hat)
    /\ ~IsZeroArray(img_hat)

\* C2: for a finite input y and a threshold t >= 0, soft_thresh(y, t) is zero
\* wherever y is zero and holds no non-finite element.
C2_ZeroStaysZeroAndFinite ==
    [][Iterate =>
        LET y == GradientStep(coeff_hat)
            t == Mul(lamda, alpha)
        IN  (AllFinite(y) /\ Le(Zero, t)) =>
                \A p \in Pos : /\ IsFinite(coeff_hat'[p])
                               /\ (y[p] = Zero => coeff_hat'[p] = Zero)]_vars

\* C3: for operators A and B and an array x, (A * B)(x) = A(B(x)) and
\* (A * B).H(x) = B.H(A.H(x)), so (A * B).H((A * B)(x)) = B.H(A.H(A(B(x)))).
C3_ComposeAdjointReverses ==
    (bench.stage = "applied" /\ bench.op.kind = "Compose") =>
        LET a == bench.op.A
            b == bench.op.B
        IN  /\ bench.y = Forward(a, Forward(b, bench.x))
            /\ bench.xh = Adjoint(b, Adjoint(a, bench.x))
            /\ bench.z = Adjoint(b, Adjoint(a, Forward(a, Forward(b, bench.x))))

C3_Witness ==
    /\ bench.stage = "applied"
    /\ bench.op = Compose(Compose(S, F), W)
    /\ bench.x = Ramp
    /\ bench.z # bench.x

\* C4: each element of soft_thresh(y, t) has magnitude max(|y| - t, 0) and,
\* when it is not zero, is a positive real multiple of the element of y at the
\* same position (stated for finite y and the thresholds t >= 0 the function
\* is specified for).
C4_MagnitudeAndPhase ==
    [][Iterate =>
        LET y == GradientStep(coeff_hat)
            t == Mul(lamda, alpha)
        IN  (AllFinite(y) /\ Le(Zero, t)) =>
                \A p \in Pos :
                    LET m == Sub(AbsC(y[p]), t)
                        out == coeff_hat'[p]
                    IN  /\ AbsC(out) = (IF GtZero(m) THEN m ELSE Zero)
                        /\ (out # Zero =>
                                /\ y[p] # Zero
                                /\ Mul(out, AbsC(y[p])) = Mul(y[p], AbsC(out)))]_vars

C6_InvalidConfigRejected ==
    (~Le(Zero, lamda) \/ Le(alpha, Zero) \/ max_iter < 0) =>
        ~(pc = "done" /\ img_hat # <<>>)

\* C7: the second run holds, after every iteration, the coefficient array the
\* first run held after as many iterations, and returns the same image.
C7_RunsAgree ==
    run = 2 =>
        /\ coeff_hat = hat_run1[it + 1]
        /\ (pc = "done" => img_hat = img_hat1)

\* C8: no step of the reconstruction changes the k-space array, the mask or the
\* wavelet layout (nor the other set-up values); the layout the decomposition
\* direction recomputes on a call is the stored one.
C8_ConfigurationFixed ==
    [][/\ config' = config
       /\ (pc' = "done" => InverseWavelet_adjoint_locals(img_hat')[2] = coeff_slices')]_vars

C8_Witness ==
    /\ run = 2
    /\ pc = "done"
    /\ it >= 1
    /\ AllFinite(coeff_hat)
    /\ ~IsZeroArray(coeff_hat)
    /\ \E p \in Pos : ~mask[p]

\* lamda >= 0, alpha > 0 and lamda * alpha is at least the magnitude of every
\* element of alpha * A.H(ksp)
LargeLamda ==
    LET g == ArrScale(alpha, Adjoint(A, ksp))
    IN  /\ Le(Zero, lamda)
        /\ ~Le(alpha, Zero)
        /\ \A p \in Pos : Le(AbsC(g[p]), Mul(lamda, alpha))

\* C9: when lamda is that large, the coefficient array after one iteration
\* from the zero start is all zero, and so is the image W(coeff_hat).
C9_LargeLamdaGivesZero ==
    (LargeLamda /\ it = 1) =>
        /\ IsZeroArray(coeff_hat)
        /\ ((pc = "done" /\ max_iter = 1) => IsZeroArray(img_hat))

NonZeroCount(x) == Cardinality({p \in DOMAIN x : x[p] # Zero})

\* C11: with ksp, mask, alpha (> 0) and the operators fixed and 0 <= lamda <=
\* lam2, the first-iteration output for lam2 has no more non-zero elements than
\* the first-iteration output for lamda.
C11_MonotonicSparsification ==
    (it = 1 /\ run = 1 /\ Le(Zero, lamda) /\ ~Le(alpha, Zero)) =>
        LET y == GradientStep(ZerosLike(coeff))
        IN  \A lam2 \in LamSet :
                Le(lamda, lam2) =>
                    \A u \in UninitSet(y) :
                        NonZeroCount(soft_thresh(y, Mul(lam2, alpha), u)) <= NonZeroCount(coeff_hat)

\* C12: for every (finite) complex n x n array x, n even or odd, F.H(F(x)) = x:
\* every element is back at its position with its value.
C12_FourierRoundTrip ==
    bench.stage = "back" => bench.z = bench.x

C12_Witness ==
    /\ bench.stage = "back"
    /\ bench.n = 3
    /\ bench.x = RampN(3)
    /\ bench.y # bench.x

\* C13: A = S * F * W is (S * F) * W, A(x) = S(F(W(x))) and
\* A.H(r) = W.H(F.H(S.H(r))), and for every coefficient array x the loop
\* calls gradf on, the gradient A.H(A(x) - ksp) equals the gradient the companion
\* notebook writes out by hand.
C13_ComposedGradientIsHandWritten ==
    (pc = "iterating" /\ it < max_iter) =>
        LET x == coeff_hat
            r == ArrSub(Forward(A, x), ksp)
        IN  /\ A.A = Compose(S, F)
            /\ A.B = W
            /\ Forward(A, x) = Sampling_forward(FFT_forward(InverseWavelet_forward(x)))
            /\ Adjoint(A, r) = InverseWavelet_adjoint(FFT_adjoint(Sampling_adjoint(r)))
            /\ gradf(x) = gradf_handwritten(x)

C13_Witness ==
    /\ pc = "iterating"
    /\ it = 1
    /\ it < max_iter
    /\ AllFinite(coeff_hat)
    /\ ~IsZeroArray(coeff_hat)
    /\ \E p \in Pos : ~mask[p]
    /\ ~IsZeroArray(gradf(coeff_hat))

\* C14: for the coefficient array x of every iteration of the loop, the
\* residual A(x) - ksp is zero at every position where the mask is false.
C14_ResidualZeroWhereUnsampled ==
    (pc = "iterating" /\ it < max_iter) =>
        LET r == ArrSub(Forward(A, coeff_hat), ksp)
        IN  \A p \in Pos : ~mask[p] => r[p] = Zero

====
